---- MODULE Spec2Model ----
(***************************************************************************)
(* Model of shelldoc's interaction package (pkg/interaction) and of the    *)
(* tokenizer's interaction visitor.                                        *)
(*                                                                         *)
(* Spec     : one Interaction, executed any number of times against a      *)
(*            shell whose ExecuteCommand returns an arbitrary               *)
(*            (output, rc, err) triple.                                    *)
(* TokSpec  : the visitor walking the code blocks of one document line by  *)
(*            line and collecting Interactions.                            *)
(***************************************************************************)
EXTENDS Integers, Sequences, FiniteSets, TLC

VARIABLES Cmd, Response, Caption, ResultCode, Comment, lastCall,
          doc, blk, ln, Interactions, current

vars == <<Cmd, Response, Caption, ResultCode, Comment, lastCall,
          doc, blk, ln, Interactions, current>>

ivars == <<Cmd, Response, Caption, ResultCode, Comment, lastCall>>

tvars == <<doc, blk, ln, Interactions, current>>

(***************************************************************************)
(* Bounds of the model.                                                    *)
(***************************************************************************)
\* longest expected response / shell output, in lines
MaxLines == 2
\* largest exit code the shell reports (the smallest is -1)
MaxExit == 1
\* most code blocks in a document
MaxBlocks == 2
\* most lines in a document, over all its code blocks
MaxDocLines == 4

(***************************************************************************)
(* Result codes (const block, iota).                                       *)
(***************************************************************************)
NewInteraction == 0
ResultExecutionError == 1
ResultError == 2
ResultMatch == 3
ResultRegexMatch == 4
ResultMismatch == 5

\* const elideAt in Describe
elideAt == 30

(***************************************************************************)
(* Go values.  A []string is nil or a non-nil slice; an error is nil or    *)
(* carries the text Error() returns.                                       *)
(***************************************************************************)
NilSlice == [isNil |-> TRUE, elems |-> <<>>]

Slice(s) == [isNil |-> FALSE, elems |-> s]

NilError == [isNil |-> TRUE, msg |-> ""]

Error(m) == [isNil |-> FALSE, msg |-> m]

\* lines a response or an output is built from: a blank line and a text line
LineTexts == {"", "Hello from shelldoc"}

SeqsUpTo(S, n) == UNION {[1..k -> S] : k \in 0..n}

Slices == {NilSlice} \cup {Slice(s) : s \in SeqsUpTo(LineTexts, MaxLines)}

\* commands of 9, 29, 30 and 31 characters
Commands == {"echo true",
             "echo hello world this is long",
             "echo hello world this is long!",
             "echo hello world this is longer"}

Captions == {"", "say hello"}

ExitCodes == (-1)..MaxExit

Errors == {NilError, Error("fork/exec /bin/sh: no such file or directory")}

(***************************************************************************)
(* Library functions used by the package.                                  *)
(***************************************************************************)
\* reflect.DeepEqual on two []string: both nil or both non-nil, same length,
\* equal elements at each index
DeepEqual(a, b) ==
    /\ a.isNil = b.isNil
    /\ Len(a.elems) = Len(b.elems)
    /\ \A i \in 1..Len(a.elems) : a.elems[i] = b.elems[i]

\* strings.Join
RECURSIVE Join(_, _)
Join(elems, sep) ==
    IF Len(elems) = 0 THEN ""
    ELSE IF Len(elems) = 1 THEN elems[1]
    ELSE elems[1] \o sep \o Join(Tail(elems), sep)

\* fmt.Sprintf("%d", n)
FormatInt(n) == ToString(n)

(***************************************************************************)
(* elideString                                                             *)
(***************************************************************************)
elideString_cutAtLength(text, length) ==
    IF length > 6 /\ Len(text) > length
    THEN SubSeq(text, 1, length) \o "..."
    ELSE text

elideString(text, length) ==
    IF length > 6 /\ Len(text) > length
    THEN SubSeq(text, 1, length - 3) \o "..."
    ELSE text

(***************************************************************************)
(* Interaction.Describe                                                    *)
(***************************************************************************)
Describe ==
    IF Len(Caption) = 0
    THEN LET joined == elideString(Join(Response.elems, ", "), elideAt)
             expect == IF Len(joined) = 0
                       THEN "(no response expected)"
                       ELSE "(expecting \"" \o joined \o "\")"
         IN  "command \"" \o elideString(Cmd, elideAt) \o "\" " \o expect
    ELSE Caption

(***************************************************************************)
(* Interaction.Result                                                      *)
(***************************************************************************)
Result ==
    CASE ResultCode = NewInteraction -> "not executed"
      [] ResultCode = ResultExecutionError -> "ERROR (result not evaluated)"
      [] ResultCode = ResultMatch ->
             IF Len(Response.elems) = 0
             THEN "PASS (execution successful)"
             ELSE "PASS (match)"
      [] ResultCode = ResultRegexMatch -> "PASS (regex match)"
      [] ResultCode = ResultMismatch -> "FAIL (mismatch)"
      [] OTHER -> "WTF"

(***************************************************************************)
(* Interaction.HasFailure                                                  *)
(***************************************************************************)
HasFailure_anyError ==
    ResultCode \in {ResultExecutionError, ResultError, ResultMismatch}

HasFailure ==
    ResultCode = ResultError \/ ResultCode = ResultMismatch

(***************************************************************************)
(* Interaction.compareRegex                                                *)
(***************************************************************************)
compareRegex_nonEmpty(output) == Len(output.elems) > 0

compareRegex(output) == FALSE

(***************************************************************************)
(* Interaction.Execute: the if-chain after shell.ExecuteCommand returned   *)
(* (output, rc, err).  Yields the fields it stores and the error it        *)
(* returns; the regex branch stores no comment.                            *)
(***************************************************************************)
ExecuteBranch_compareFirst(output, rc, err) ==
    IF ~err.isNil
    THEN [code |-> ResultExecutionError, comment |-> err.msg,
          ret |-> Error("unable to execute command: " \o err.msg)]
    ELSE IF DeepEqual(output, Response)
    THEN [code |-> ResultMatch, comment |-> "", ret |-> NilError]
    ELSE IF rc # 0
    THEN [code |-> ResultError,
          comment |-> "command exited with non-zero exit code " \o FormatInt(rc),
          ret |-> NilError]
    ELSE [code |-> ResultMismatch, comment |-> "", ret |-> NilError]

ExecuteBranch_keepComment(output, rc, err) ==
    IF ~err.isNil
    THEN [code |-> ResultExecutionError, comment |-> err.msg,
          ret |-> Error("unable to execute command: " \o err.msg)]
    ELSE IF rc # 0
    THEN [code |-> ResultError,
          comment |-> "command exited with non-zero exit code " \o FormatInt(rc),
          ret |-> NilError]
    ELSE IF DeepEqual(output, Response)
    THEN [code |-> ResultMatch, comment |-> Comment, ret |-> NilError]
    ELSE IF compareRegex(output)
    THEN [code |-> ResultRegexMatch, comment |-> Comment, ret |-> NilError]
    ELSE [code |-> ResultMismatch, comment |-> "", ret |-> NilError]

ExecuteBranch_swallowError(output, rc, err) ==
    IF ~err.isNil
    THEN [code |-> ResultExecutionError, comment |-> err.msg, ret |-> NilError]
    ELSE IF rc # 0
    THEN [code |-> ResultError,
          comment |-> "command exited with non-zero exit code " \o FormatInt(rc),
          ret |-> NilError]
    ELSE IF DeepEqual(output, Response)
    THEN [code |-> ResultMatch, comment |-> "", ret |-> NilError]
    ELSE IF compareRegex(output)
    THEN [code |-> ResultRegexMatch, comment |-> Comment, ret |-> NilError]
    ELSE [code |-> ResultMismatch, comment |-> "", ret |-> NilError]

ExecuteBranch(output, rc, err) ==
    IF ~err.isNil
    THEN [code |-> ResultExecutionError, comment |-> err.msg,
          ret |-> Error("unable to execute command: " \o err.msg)]
    ELSE IF rc # 0
    THEN [code |-> ResultError,
          comment |-> "command exited with non-zero exit code " \o FormatInt(rc),
          ret |-> NilError]
    ELSE IF DeepEqual(output, Response)
    THEN [code |-> ResultMatch, comment |-> "", ret |-> NilError]
    ELSE IF compareRegex(output)
    THEN [code |-> ResultRegexMatch, comment |-> Comment, ret |-> NilError]
    ELSE [code |-> ResultMismatch, comment |-> "", ret |-> NilError]

\* no Execute has returned yet
NoCall == [called |-> FALSE, output |-> NilSlice, rc |-> 0, err |-> NilError,
           ret |-> NilError, hadComment |-> FALSE]

\* the tokenizer's variables, at rest while an Interaction is executed
TokIdle ==
    /\ doc = <<>>
    /\ blk = 1
    /\ ln = 1
    /\ Interactions = <<>>
    /\ current = 0

(***************************************************************************)
(* An Interaction as handed to the runner: New(caption), then Cmd and      *)
(* Response filled in by the parser; ResultCode and Comment are the zero   *)
(* values.                                                                 *)
(***************************************************************************)
Init ==
    /\ Cmd \in Commands
    /\ Response \in Slices
    /\ Caption \in Captions
    /\ ResultCode = NewInteraction
    /\ Comment = ""
    /\ lastCall = NoCall
    /\ TokIdle

Execute ==
    \E output \in Slices, rc \in ExitCodes, err \in Errors :
        LET r == ExecuteBranch(output, rc, err) IN
        /\ ResultCode' = r.code
        /\ Comment' = r.comment
        /\ lastCall' = [called |-> TRUE, output |-> output, rc |-> rc,
                        err |-> err, ret |-> r.ret,
                        hadComment |-> Comment # ""]
        /\ UNCHANGED <<Cmd, Response, Caption>>
        /\ UNCHANGED tvars

Next == Execute

Spec == Init /\ [][Next]_vars

(***************************************************************************)
(* The interaction visitor of the tokenizer: the code-block handler reads   *)
(* a block's lines in order.  A line with the prompt marker starts a new    *)
(* Interaction; any other line goes to the response of the Interaction      *)
(* under the cursor, or is dropped when there is none yet.                  *)
(***************************************************************************)
PromptMarker == "$ "

IsCommandLine(line) ==
    /\ Len(line) >= Len(PromptMarker)
    /\ SubSeq(line, 1, Len(PromptMarker)) = PromptMarker

StripMarker(line) == SubSeq(line, Len(PromptMarker) + 1, Len(line))

\* lines a code block is built from
BlockLines == {"$ echo hello", "$ true", "Hello", ""}

\* code blocks of at most n lines
Blocks(n) == SeqsUpTo(BlockLines, n)

\* documents of at most b code blocks and at most n lines in all
RECURSIVE DocumentsOf(_, _)
DocumentsOf(b, n) ==
    IF b = 0 THEN {<<>>}
    ELSE {<<>>} \cup
         UNION {{<<block>> \o rest : rest \in DocumentsOf(b - 1, n - Len(block))} :
                    block \in Blocks(n)}

Documents == DocumentsOf(MaxBlocks, MaxDocLines)

\* the Interaction record the visitor creates for a command line
NewTokInteraction(line) == [Cmd |-> StripMarker(line), Response |-> <<>>]

\* append a response line to the Interaction under the cursor
AppendLine_toFirst(list, cur, line) ==
    [list EXCEPT ![1].Response = Append(@, line)]

AppendLine(list, cur, line) ==
    [list EXCEPT ![cur].Response = Append(@, line)]

\* the interaction fields, at rest while a document is tokenized
InteractionIdle ==
    /\ Cmd = "echo true"
    /\ Response = NilSlice
    /\ Caption = ""
    /\ ResultCode = NewInteraction
    /\ Comment = ""
    /\ lastCall = NoCall

TokInit ==
    /\ doc \in Documents
    /\ blk = 1
    /\ ln = 1
    /\ Interactions = <<>>
    /\ current = 0
    /\ InteractionIdle

\* the handler is inside block blk, at a line it has not read yet
AtLine == blk <= Len(doc) /\ ln <= Len(doc[blk])

WalkDone == blk > Len(doc)

StartInteraction ==
    /\ AtLine
    /\ IsCommandLine(doc[blk][ln])
    /\ Interactions' = Append(Interactions, NewTokInteraction(doc[blk][ln]))
    /\ current' = Len(Interactions) + 1
    /\ ln' = ln + 1
    /\ UNCHANGED <<doc, blk>>
    /\ UNCHANGED ivars

AppendResponse ==
    /\ AtLine
    /\ ~IsCommandLine(doc[blk][ln])
    /\ current # 0
    /\ Interactions' = AppendLine(Interactions, current, doc[blk][ln])
    /\ ln' = ln + 1
    /\ UNCHANGED <<doc, blk, current>>
    /\ UNCHANGED ivars

DiscardLine ==
    /\ AtLine
    /\ ~IsCommandLine(doc[blk][ln])
    /\ current = 0
    /\ ln' = ln + 1
    /\ UNCHANGED <<doc, blk, Interactions, current>>
    /\ UNCHANGED ivars

\* the handler returns at the end of its block and the walk goes on
NextBlock ==
    /\ blk <= Len(doc)
    /\ ln > Len(doc[blk])
    /\ blk' = blk + 1
    /\ ln' = 1
    /\ UNCHANGED <<doc, Interactions, current>>
    /\ UNCHANGED ivars

TokNext == StartInteraction \/ AppendResponse \/ DiscardLine \/ NextBlock

TokSpec == TokInit /\ [][TokNext]_vars

(***************************************************************************)
(* Properties of Interaction (checked under Spec).                         *)
(***************************************************************************)
\* two line sequences are equal as ordered sequences
SameSequence(a, b) ==
    /\ Len(a) = Len(b)
    /\ \A i \in 1..Len(a) : a[i] = b[i]

\* the last Execute saw no error and exit code 0
CleanRun == lastCall.called /\ lastCall.err.isNil /\ lastCall.rc = 0

\* decimal numerals
Digits == <<"0", "1", "2", "3", "4", "5", "6", "7", "8", "9">>

RECURSIVE Decimal(_)
Decimal(n) ==
    IF n < 0 THEN "-" \o Decimal(-n)
    ELSE IF n < 10 THEN Digits[n + 1]
    ELSE Decimal(n \div 10) \o Digits[(n % 10) + 1]

EndsWith(s, suffix) ==
    /\ Len(s) >= Len(suffix)
    /\ SubSeq(s, Len(s) - Len(suffix) + 1, Len(s)) = suffix

StartsWith(s, prefix) ==
    /\ Len(s) >= Len(prefix)
    /\ SubSeq(s, 1, Len(prefix)) = prefix

\* C1: after an Execute whose shell call returned no error, exit code 0 and
\* output equal to Response as an ordered sequence (both empty included),
\* ResultCode is ResultMatch and Comment is empty; with an empty Response
\* Result() reads "PASS (execution successful)".
C1_ExactMatch ==
    (CleanRun /\ SameSequence(lastCall.output.elems, Response.elems)) =>
        /\ ResultCode = ResultMatch
        /\ Comment = ""
        /\ (Len(Response.elems) = 0 => Result = "PASS (execution successful)")

\* C2: after an Execute whose shell call returned an error, Execute returned
\* a non-nil error, ResultCode is ResultExecutionError, Comment is the
\* error's text and HasFailure() is false, whatever output and rc came along.
C2_ExecutionError ==
    (lastCall.called /\ ~lastCall.err.isNil) =>
        /\ ~lastCall.ret.isNil
        /\ ResultCode = ResultExecutionError
        /\ Comment = lastCall.err.msg
        /\ ~HasFailure

C2_Witness ==
    /\ lastCall.called
    /\ ~lastCall.err.isNil
    /\ lastCall.rc # 0
    /\ Len(lastCall.output.elems) > 0
    /\ ResultCode = ResultExecutionError
    /\ ~lastCall.ret.isNil

\* C3: after an Execute whose shell call returned no error and a non-zero
\* exit code N, ResultCode is ResultError, Comment is "command exited with
\* non-zero exit code N", Execute returned nil and HasFailure() is true,
\* whatever the output was.
C3_CommandError ==
    (lastCall.called /\ lastCall.err.isNil /\ lastCall.rc # 0) =>
        /\ ResultCode = ResultError
        /\ Comment = "command exited with non-zero exit code " \o Decimal(lastCall.rc)
        /\ lastCall.ret.isNil
        /\ HasFailure

C3_Witness ==
    /\ lastCall.called
    /\ lastCall.err.isNil
    /\ lastCall.rc # 0
    /\ Len(Response.elems) > 0
    /\ DeepEqual(lastCall.output, Response)
    /\ ResultCode = ResultError
    /\ HasFailure

\* C4: in every state HasFailure() is true exactly for ResultError and
\* ResultMismatch, and false for NewInteraction, ResultExecutionError,
\* ResultMatch and ResultRegexMatch.
C4_HasFailure ==
    /\ ResultCode \in {ResultError, ResultMismatch} => HasFailure
    /\ ResultCode \in {NewInteraction, ResultExecutionError, ResultMatch,
                       ResultRegexMatch} => ~HasFailure
    /\ HasFailure => ResultCode \in {ResultError, ResultMismatch}

C4_Witness ==
    /\ lastCall.called
    /\ ResultCode = ResultMismatch
    /\ HasFailure

\* C5: Result() is the table's label for each result code: "not executed",
\* "ERROR (result not evaluated)", "PASS (execution successful)" or
\* "PASS (match)", "PASS (regex match)", "FAIL (mismatch)", and for
\* ResultError an error-style label as ResultExecutionError has.
C5_ResultLabels ==
    /\ ResultCode = NewInteraction => Result = "not executed"
    /\ ResultCode = ResultExecutionError => Result = "ERROR (result not evaluated)"
    /\ ResultCode = ResultMatch =>
           Result = IF Len(Response.elems) = 0
                    THEN "PASS (execution successful)"
                    ELSE "PASS (match)"
    /\ ResultCode = ResultRegexMatch => Result = "PASS (regex match)"
    /\ ResultCode = ResultMismatch => Result = "FAIL (mismatch)"
    /\ ResultCode = ResultError => StartsWith(Result, "ERROR")

\* the command preview Describe() shows when nothing is elided or the first
\* elideAt - 3 characters followed by "..."
CmdPreview ==
    IF Len(Cmd) > elideAt THEN SubSeq(Cmd, 1, elideAt - 3) \o "..." ELSE Cmd

\* C6 (as stated): with an empty caption, the command
\* "echo hello world this is long" and an empty response, Describe() shows a
\* truncated command followed by an ellipsis and "(no response expected)";
\* a non-empty caption is returned unchanged.
C6_Original ==
    /\ Len(Caption) > 0 => Describe = Caption
    /\ (Len(Caption) = 0 /\ Cmd = "echo hello world this is long"
            /\ Len(Response.elems) = 0) =>
           \E n \in 0..Len(Cmd) :
               Describe = "command \"" \o SubSeq(Cmd, 1, n) \o "...\" (no response expected)"

\* C6 (amended): with an empty caption and an empty response Describe() is
\* command "<preview>" (no response expected), where the preview is the whole
\* command when it has at most 30 characters and its first 27 characters
\* followed by "..." otherwise; "echo hello world this is long" has 29
\* characters and is shown in full; a non-empty caption is returned unchanged.
C6_Describe ==
    /\ Len(Caption) > 0 => Describe = Caption
    /\ (Len(Caption) = 0 /\ Len(Response.elems) = 0) =>
           Describe = "command \"" \o CmdPreview \o "\" (no response expected)"
    /\ (Len(Caption) = 0 /\ Cmd = "echo hello world this is long"
            /\ Len(Response.elems) = 0) =>
           Describe = "command \"echo hello world this is long\" (no response expected)"

C6_Witness ==
    /\ Len(Caption) = 0
    /\ Cmd = "echo hello world this is long"
    /\ Len(Response.elems) = 0
    /\ Describe = "command \"echo hello world this is long\" (no response expected)"

\* what the last shell call alone determines
LastCallVerdict ==
    IF ~lastCall.err.isNil
    THEN <<ResultExecutionError, lastCall.err.msg>>
    ELSE IF lastCall.rc # 0
    THEN <<ResultError,
           "command exited with non-zero exit code " \o Decimal(lastCall.rc)>>
    ELSE IF DeepEqual(lastCall.output, Response)
    THEN <<ResultMatch, "">>
    ELSE <<ResultMismatch, "">>

\* C8: every Execute overwrites ResultCode and Comment with what its own
\* shell call (error, exit code, output) and Response determine, whatever
\* they were before, and leaves Cmd, Response and Caption unchanged.
C8_Overwrite ==
    [][ /\ <<ResultCode', Comment'>> = LastCallVerdict'
        /\ Cmd' = Cmd
        /\ Response' = Response
        /\ Caption' = Caption ]_vars

C8_Witness ==
    /\ lastCall.called
    /\ lastCall.hadComment
    /\ ResultCode \in {ResultMatch, ResultMismatch}
    /\ Comment = ""

\* C9: after an Execute whose shell call returned no error, exit code 0 and
\* an output that differs from Response, ResultCode is ResultMismatch, Comment
\* is empty and Execute returned nil; ResultCode is never ResultRegexMatch,
\* and after any Execute it is one of ResultExecutionError, ResultError,
\* ResultMatch, ResultMismatch.
C9_Mismatch ==
    /\ (CleanRun /\ ~SameSequence(lastCall.output.elems, Response.elems)) =>
           /\ ResultCode = ResultMismatch
           /\ Comment = ""
           /\ lastCall.ret.isNil
    /\ ResultCode # ResultRegexMatch
    /\ lastCall.called =>
           ResultCode \in {ResultExecutionError, ResultError, ResultMatch,
                           ResultMismatch}

C9_Witness ==
    /\ CleanRun
    /\ Len(lastCall.output.elems) = Len(Response.elems)
    /\ {lastCall.output.elems[i] : i \in 1..Len(Response.elems)}
           = {Response.elems[i] : i \in 1..Len(Response.elems)}
    /\ ~SameSequence(lastCall.output.elems, Response.elems)
    /\ lastCall.hadComment
    /\ ResultCode = ResultMismatch

\* C10: with an empty caption Describe() ends in "(no response expected)"
\* exactly when Response has no lines, that is exactly when Result() of a
\* ResultMatch reads "PASS (execution successful)"; a Response of at least
\* one line, a blank line included, is not described by the placeholder.
C10_Placeholder ==
    Len(Caption) = 0 =>
        /\ EndsWith(Describe, "(no response expected)") <=> Len(Response.elems) = 0
        /\ ResultCode = ResultMatch =>
               (EndsWith(Describe, "(no response expected)")
                    <=> Result = "PASS (execution successful)")

(***************************************************************************)
(* Properties of the visitor (checked under TokSpec).                      *)
(***************************************************************************)
\* the lines of blocks 1..n of the document, in walk order
RECURSIVE LinesOfBlocks(_)
LinesOfBlocks(n) == IF n = 0 THEN <<>> ELSE LinesOfBlocks(n - 1) \o doc[n]

\* the lines the walk has read so far
LinesRead ==
    IF WalkDone THEN LinesOfBlocks(Len(doc))
    ELSE LinesOfBlocks(blk - 1) \o SubSeq(doc[blk], 1, ln - 1)

CommandPositions == {i \in 1..Len(LinesRead) : IsCommandLine(LinesRead[i])}

\* position of the k-th command line read
CommandPosition(k) ==
    CHOOSE i \in CommandPositions :
        Cardinality({j \in CommandPositions : j < i}) = k - 1

\* position just before which the response of the k-th command ends
ResponseEnd(k) ==
    IF k < Cardinality(CommandPositions)
    THEN CommandPosition(k + 1)
    ELSE Len(LinesRead) + 1

\* C7: the Interactions are, in order, the command lines read so far, one
\* Interaction per command line (also within one block); the response of
\* each is exactly the non-command lines between its command line and the
\* next one, in order, and is empty when there are none.
C7_WalkOrder ==
    /\ Len(Interactions) = Cardinality(CommandPositions)
    /\ \A k \in 1..Len(Interactions) :
           /\ Interactions[k].Cmd = StripMarker(LinesRead[CommandPosition(k)])
           /\ Interactions[k].Response =
                  SubSeq(LinesRead, CommandPosition(k) + 1, ResponseEnd(k) - 1)

C7_Witness ==
    /\ WalkDone
    /\ Len(doc) = 2
    /\ Len(doc[1]) = 2
    /\ IsCommandLine(doc[1][1])
    /\ IsCommandLine(doc[1][2])
    /\ Len(Interactions) = 2
    /\ Interactions[1].Response = <<>>
    /\ Interactions[2].Response = <<"Hello", "">>

====
